---- MODULE Spec2Model ----
(***************************************************************************)
(* The chat relay of actixBackendChat: the ChatServer actor (server.rs),   *)
(* which owns the session registry and the rooms, and the WsChatSession    *)
(* actors (main.rs), one per websocket connection.  Strings are sequences  *)
(* of one-character strings, so that trim, splitn and format! are computed *)
(* as the code computes them.                                              *)
(***************************************************************************)
EXTENDS Integers, Sequences, FiniteSets, TLC

\* ------------------------------------------------------------------ bounds
\* number of websocket connections (WsChatSession actors) ever opened
NSess == 2
\* rng.gen::<usize>() draws from 0..MaxId
MaxId == 2
\* number of frames a peer sends on one connection
MaxFrames == 2

\* ------------------------------------------------------- program constants
HEARTBEAT_INTERVAL == 5
CLIENT_TIMEOUT == 10

Sess == 1..NSess
Ids == 0..MaxId

\* ----------------------------------------------------------------- strings
Main == <<"M", "a", "i", "n">>
RoomA == <<"A">>
SomeoneJoined == <<"S","o","m","e","o","n","e"," ","j","o","i","n","e","d">>
SomeoneDisconnected ==
  <<"S","o","m","e","o","n","e"," ","d","i","s","c","o","n","n","e","c","t","e","d">>
SomeoneConnected ==
  <<"S","o","m","e","o","n","e"," ","c","o","n","n","e","c","t","e","d">>
TotalVisitorsPrefix ==
  <<"T","o","t","a","l"," ","v","i","s","i","t","o","r","s"," ">>
Joined == <<"j","o","i","n","e","d">>
RoomNameRequired ==
  <<"!","!","!"," ","r","o","o","m"," ","n","a","m","e"," ","i","s"," ",
    "r","e","q","u","i","r","e","d">>
NameRequired ==
  <<"!","!","!"," ","n","a","m","e"," ","i","s"," ","r","e","q","u","i","r","e","d">>
UnknownCommandPrefix ==
  <<"!","!","!"," ","u","n","k","n","o","w","n"," ","c","o","m","m","a","n","d",":"," ">>
CmdList == <<"/","l","i","s","t">>
CmdJoin == <<"/","j","o","i","n">>
CmdName == <<"/","n","a","m","e">>

\* char::is_whitespace, restricted to the characters the inputs use
IsWhitespace(c) == c \in {" ", "\t", "\n", "\r"}

RECURSIVE TrimStart(_)
TrimStart(t) ==
  IF t # <<>> /\ IsWhitespace(Head(t)) THEN TrimStart(Tail(t)) ELSE t

RECURSIVE TrimEnd(_)
TrimEnd(t) ==
  IF t # <<>> /\ IsWhitespace(t[Len(t)])
  THEN TrimEnd(SubSeq(t, 1, Len(t) - 1)) ELSE t

\* Trim as str::trim_start would compute it
TrimLeadingOnly(t) == TrimStart(t)

\* str::trim
Trim(t) == TrimEnd(TrimStart(t))

\* str::starts_with('/')
StartsWithSlash(m) == m # <<>> /\ Head(m) = "/"

\* m.splitn(2, ' ').collect(): at most two pieces, cut at the first space
SplitN2(m) ==
  LET spaces == {i \in 1..Len(m) : m[i] = " "} IN
  IF spaces = {} THEN <<m>>
  ELSE LET i == CHOOSE k \in spaces : \A j \in spaces : k <= j IN
       <<SubSeq(m, 1, i - 1), SubSeq(m, i + 1, Len(m))>>

\* format!("{}", n) of an unsigned integer
RECURSIVE Decimal(_)
Decimal(n) ==
  LET d == <<"0","1","2","3","4","5","6","7","8","9">> IN
  IF n < 10 THEN <<d[n + 1]>> ELSE Decimal(n \div 10) \o <<d[(n % 10) + 1]>>

\* format!("Total visitors {}", count)
TotalVisitors(count) == TotalVisitorsPrefix \o Decimal(count)

\* format!("{:?}", m) of a str without quotes, backslashes or control characters
DebugStr(m) == <<"\"">> \o m \o <<"\"">>

\* format!("{}: {}", name, m)
NamedText(name, m) == name \o <<":", " ">> \o m

\* An iteration order over a hash set or over the keys of a hash map.  Each
\* recipient gets at most one Message per send_message call and every notice
\* of one handler carries the same text, so the order is not observable.
RECURSIVE SeqOfSet(_)
SeqOfSet(S) ==
  IF S = {} THEN <<>>
  ELSE LET x == CHOOSE y \in S : TRUE IN <<x>> \o SeqOfSet(S \ {x})

RECURSIVE Concat(_)
Concat(ss) == IF ss = <<>> THEN <<>> ELSE Head(ss) \o Concat(Tail(ss))

Range(f) == {f[x] : x \in DOMAIN f}

\* HashMap::insert / HashMap::remove
MapInsert(f, k, v) == [x \in DOMAIN f \cup {k} |-> IF x = k THEN v ELSE f[x]]
MapRemove(f, k) == [x \in DOMAIN f \ {k} |-> f[x]]

\* ------------------------------------------------------------------ messages
\* A message in the ChatServer's mailbox.  addr is Connect's recipient; for
\* the other messages it is the envelope's sender (the reply channel of
\* ListRooms).
Envelope(type, id, room, msg, addr) ==
  [type |-> type, id |-> id, room |-> room, msg |-> msg, addr |-> addr]

\* addr.do_send(Message(text)): one delivery attempt to a session's handle
Delivery(to, text) == [to |-> to, text |-> text]

\* what a session writes on its websocket
Out(k, body) == [k |-> k, body |-> body]

\* --------------------------------------------------------------- ChatServer
\* send_message without the test "*id != skip_id"
send_message_to_all(ss, rs, room, message, skip_id) ==
  IF room \in DOMAIN rs
  THEN LET ids == SeqOfSet({id \in rs[room] : id \in DOMAIN ss})
       IN [i \in 1..Len(ids) |-> [to |-> ss[ids[i]], text |-> message]]
  ELSE <<>>

\* ChatServer::send_message: the deliveries it attempts, given the registry
\* ss and the rooms rs
send_message(ss, rs, room, message, skip_id) ==
  IF room \in DOMAIN rs
  THEN LET ids == SeqOfSet({id \in rs[room] : id # skip_id /\ id \in DOMAIN ss})
       IN [i \in 1..Len(ids) |-> Delivery(ss[ids[i]], message)]
  ELSE <<>>

\* rooms.entry(name).or_insert_with(HashSet::new).insert(id)
EntryInsert(rs, name, id) ==
  MapInsert(rs, name, (IF name \in DOMAIN rs THEN rs[name] ELSE {}) \cup {id})

\* the removal loop, were it to drop the rooms it empties
RemoveFromRoomsPruning(rs, id) ==
  [n \in {k \in DOMAIN rs : rs[k] \ {id} # {}} |-> rs[n] \ {id}]

\* the loop "for (n, sessions) in &mut self.rooms { if sessions.remove(&id) .. }":
\* the rooms after it, and the names it pushed
RemoveFromRooms(rs, id) == [n \in DOMAIN rs |-> rs[n] \ {id}]
RoomsHolding(rs, id) == {n \in DOMAIN rs : id \in rs[n]}

\* "for room in rooms { self.send_message(&room, "Someone disconnected", 0) }"
NotifyRooms(ss, rs, names) ==
  LET ns == SeqOfSet(names) IN
  Concat([i \in 1..Len(ns) |-> send_message(ss, rs, ns[i], SomeoneDisconnected, 0)])

\* Handler<Connect>::handle, were the counter notice to skip the new id
HandleConnectSkipsNew(ss, rs, vc, addr, id) ==
  LET first == send_message(ss, rs, Main, SomeoneJoined, 0)
      ss2 == MapInsert(ss, id, addr)
      rs2 == EntryInsert(rs, Main, id)
  IN [sessions |-> ss2, rooms |-> rs2, visitor_count |-> vc + 1,
      sent |-> first \o send_message(ss2, rs2, Main, TotalVisitors(vc), id),
      result |-> id]

\* Handler<Connect>::handle, with id the value rng.gen::<usize>() returns
HandleConnect(ss, rs, vc, addr, id) ==
  LET first == send_message(ss, rs, Main, SomeoneJoined, 0)
      ss2 == MapInsert(ss, id, addr)
      rs2 == EntryInsert(rs, Main, id)
      count == vc
  IN [sessions |-> ss2, rooms |-> rs2, visitor_count |-> vc + 1,
      sent |-> first \o send_message(ss2, rs2, Main, TotalVisitors(count), 0),
      result |-> id]

\* Handler<Disconnect>::handle, were it to leave the id in its rooms
HandleDisconnectKeepsRooms(ss, rs, id) ==
  LET known == id \in DOMAIN ss
      ss2 == IF known THEN MapRemove(ss, id) ELSE ss
      left == IF known THEN RoomsHolding(rs, id) ELSE {}
  IN [sessions |-> ss2, rooms |-> rs, sent |-> NotifyRooms(ss2, rs, left)]

\* Handler<Disconnect>::handle, were it to scan the rooms without the test
\* "self.sessions.remove(&msg.id).is_some()"
HandleDisconnectUnchecked(ss, rs, id) ==
  LET ss2 == IF id \in DOMAIN ss THEN MapRemove(ss, id) ELSE ss
      rs2 == RemoveFromRooms(rs, id)
  IN [sessions |-> ss2, rooms |-> rs2,
      sent |-> NotifyRooms(ss2, rs2, RoomsHolding(rs, id))]

\* Handler<Disconnect>::handle
HandleDisconnect(ss, rs, id) ==
  LET known == id \in DOMAIN ss
      ss2 == IF known THEN MapRemove(ss, id) ELSE ss
      rs2 == IF known THEN RemoveFromRooms(rs, id) ELSE rs
      left == IF known THEN RoomsHolding(rs, id) ELSE {}
  IN [sessions |-> ss2, rooms |-> rs2, sent |-> NotifyRooms(ss2, rs2, left)]

\* Handler<ClientMessage>::handle, were it to create the room it names
HandleClientMessageCreatesRoom(ss, rs, id, msg, room) ==
  LET rs2 == IF room \in DOMAIN rs THEN rs ELSE MapInsert(rs, room, {})
  IN [sessions |-> ss, rooms |-> rs2, sent |-> send_message(ss, rs2, room, msg, id)]

\* Handler<ClientMessage>::handle
HandleClientMessage(ss, rs, id, msg, room) ==
  [sessions |-> ss, rooms |-> rs, sent |-> send_message(ss, rs, room, msg, id)]

\* Handler<ListRooms>::handle: the keys of rooms, in the order the map yields
ListRoomsResults(rs) ==
  LET n == Cardinality(DOMAIN rs) IN
  {v \in [1..n -> DOMAIN rs] : \A i, j \in 1..n : v[i] = v[j] => i = j}

\* Handler<Join>::handle, were it to skip the removal loop
HandleJoinKeepsOldRooms(ss, rs, id, name) ==
  LET rs3 == EntryInsert(rs, name, id)
  IN [sessions |-> ss, rooms |-> rs3,
      sent |-> send_message(ss, rs3, name, SomeoneConnected, id)]

\* Handler<Join>::handle
HandleJoin(ss, rs, id, name) ==
  LET rs2 == RemoveFromRooms(rs, id)
      left == NotifyRooms(ss, rs2, RoomsHolding(rs, id))
      rs3 == EntryInsert(rs2, name, id)
  IN [sessions |-> ss, rooms |-> rs3,
      sent |-> left \o send_message(ss, rs3, name, SomeoneConnected, id)]

\* ------------------------------------------------------------ WsChatSession
\* StreamHandler::handle for ws::Message::Text(text): what the session does,
\* given its id, room and name (name is <<>> for None, <<n>> for Some(n))
HandleText(text, s, id, room, name) ==
  LET m == Trim(text)
      v == SplitN2(m)
      same == [room |-> room, name |-> name, send |-> <<>>, wrote |-> <<>>,
               wait |-> FALSE]
  IN IF StartsWithSlash(m)
     THEN IF v[1] = CmdList
          THEN [same EXCEPT !.send = <<Envelope("ListRooms", 0, <<>>, <<>>, s)>>,
                            !.wait = TRUE]
          ELSE IF v[1] = CmdJoin
          THEN IF Len(v) = 2
               THEN [same EXCEPT !.room = v[2],
                                 !.send = <<Envelope("Join", id, v[2], <<>>, s)>>,
                                 !.wrote = <<Out("text", Joined)>>]
               ELSE [same EXCEPT !.wrote = <<Out("text", RoomNameRequired)>>]
          ELSE IF v[1] = CmdName
          THEN IF Len(v) = 2
               THEN [same EXCEPT !.name = <<v[2]>>]
               ELSE [same EXCEPT !.wrote = <<Out("text", NameRequired)>>]
          ELSE [same EXCEPT
                  !.wrote = <<Out("text", UnknownCommandPrefix \o DebugStr(m))>>]
     ELSE LET msg == IF name # <<>> THEN NamedText(name[1], m) ELSE m IN
          [same EXCEPT !.send = <<Envelope("ClientMessage", id, room, msg, s)>>]

\* the test of the heartbeat callback, were it ">=" instead of ">"
HeartbeatFailedAtTimeout(age) == age >= CLIENT_TIMEOUT

\* the callback of run_interval in WsChatSession::hb: whether the client
\* timed out, given the time since act.hb
HeartbeatFailed(age) == age > CLIENT_TIMEOUT

\* ------------------------------------------------------------------- inputs
\* the text frames a peer sends
Texts ==
  { CmdList,
    CmdJoin,
    <<" ">> \o CmdJoin \o <<" ", " ">>,
    CmdJoin \o <<" ">> \o RoomA,
    CmdJoin \o <<" ">> \o Main,
    CmdName,
    CmdName \o <<" ", "n">>,
    <<"/", "x">>,
    <<"h", "i">> }

\* Result<ws::Message, ws::ProtocolError>: the items of the websocket stream
Frame(kind, text) == [kind |-> kind, text |-> text]
Frames ==
  {Frame(k, <<>>) : k \in {"Ping", "Pong", "Binary", "Close", "Continuation",
                            "Nop", "Err"}}
    \cup {Frame("Text", t) : t \in Texts}

\* the frames of the runs in which sessions wait for the ChatServer while
\* time passes: the commands that reach the ChatServer, and a chat line
WaitFrames ==
  {Frame("Text", t) : t \in {CmdList, CmdJoin \o <<" ">> \o RoomA, <<"h", "i">>}}

\* the frames of the runs in which time passes
LivenessFrames ==
  {Frame(k, <<>>) : k \in {"Ping", "Pong", "Close", "Continuation", "Err"}}
    \cup {Frame("Text", CmdJoin \o <<" ">> \o RoomA)}

\* -------------------------------------------------------------------- state
VARIABLES
  sessions,       \* ChatServer.sessions: id -> handle (the session it delivers to)
  rooms,          \* ChatServer.rooms: name -> set of ids
  visitor_count,  \* ChatServer.visitor_count
  mailbox,        \* the ChatServer's mailbox, in arrival order
  alive,          \* whether the ChatServer actor is running
  ws_state,       \* each session: "none", "connecting", "active", "listing", "stopped"
  ws_id,          \* WsChatSession.id
  hb_age,         \* Instant::now() - WsChatSession.hb, saturated above the timeout
  tick_due,       \* whether the run_interval timer fired while the session waited
  ws_room,        \* WsChatSession.room
  ws_name,        \* WsChatSession.name: <<>> for None, <<n>> for Some(n)
  frames,         \* how many frames the peer of each session has sent
  reply,          \* the response of the request the session waits for
  disconnects,    \* how many times each session did do_send(Disconnect)
  last,           \* the step taken last: handler, message, deliveries, output
  gone,           \* handles a handled Disconnect removed from the registry
  joined,         \* room names that were the target of a handled Join
  issued          \* the ids Connect returned, in order

vars ==
  <<sessions, rooms, visitor_count, mailbox, alive, ws_state, ws_id, hb_age,
    tick_due, ws_room, ws_name, frames, reply, disconnects, last, gone,
    joined, issued>>

coordinator == <<sessions, rooms, visitor_count>>
history == <<gone, joined, issued>>

NoFrame == Frame("none", <<>>)
NoMsg == Envelope("none", 0, <<>>, <<>>, 0)
NoReply == [k |-> "none", id |-> 0, rooms |-> <<>>]

\* a record of the step taken: ev names the handler, s the session acting
\* (0 for the ChatServer)
Step(ev, s, frame, msg, sent, wrote) ==
  [ev |-> ev, s |-> s, frame |-> frame, msg |-> msg, sent |-> sent, wrote |-> wrote]

\* ChatServer::new, main, and no connection opened yet
Init ==
  /\ sessions = <<>>
  /\ rooms = [n \in {Main} |-> {}]
  /\ visitor_count = 0
  /\ mailbox = <<>>
  /\ alive = TRUE
  /\ ws_state = [s \in Sess |-> "none"]
  /\ ws_id = [s \in Sess |-> 0]
  /\ hb_age = [s \in Sess |-> 0]
  /\ tick_due = [s \in Sess |-> FALSE]
  /\ ws_room = [s \in Sess |-> Main]
  /\ ws_name = [s \in Sess |-> <<>>]
  /\ frames = [s \in Sess |-> 0]
  /\ reply = [s \in Sess |-> NoReply]
  /\ disconnects = [s \in Sess |-> 0]
  /\ last = Step("init", 0, NoFrame, NoMsg, <<>>, <<>>)
  /\ gone = {}
  /\ joined = {}
  /\ issued = <<>>

\* Addr::do_send and Addr::send put the message in the mailbox of a running
\* ChatServer and fail otherwise
Enqueue(mb, msgs) == IF alive THEN mb \o msgs ELSE mb

ErrReply == [k |-> "err", id |-> 0, rooms |-> <<>>]

\* Actor::stopping: self.addr.do_send(server::Disconnect { id: self.id })
Stopping(s, id) == <<Envelope("Disconnect", id, <<>>, <<>>, s)>>

\* StreamHandler::handle: the effect of one item of the websocket stream.
\* beat: self.hb = Instant::now(); stop: ctx.stop(); wait: .wait(ctx)
StreamHandle(f, s, id, room, name) ==
  LET same == [room |-> room, name |-> name, send |-> <<>>, wrote |-> <<>>,
               wait |-> FALSE, stop |-> FALSE, beat |-> FALSE]
  IN CASE f.kind = "Err" -> [same EXCEPT !.stop = TRUE]
       [] f.kind = "Ping" ->
            [same EXCEPT !.beat = TRUE, !.wrote = <<Out("pong", <<>>)>>]
       [] f.kind = "Pong" -> [same EXCEPT !.beat = TRUE]
       [] f.kind = "Text" ->
            LET t == HandleText(f.text, s, id, room, name) IN
            [same EXCEPT !.room = t.room, !.name = t.name, !.send = t.send,
                         !.wrote = t.wrote, !.wait = t.wait]
       [] f.kind = "Binary" -> same
       [] f.kind = "Close" ->
            [same EXCEPT !.wrote = <<Out("close", <<>>)>>, !.stop = TRUE]
       [] f.kind = "Continuation" -> [same EXCEPT !.stop = TRUE]
       [] f.kind = "Nop" -> same

\* the callback of run_interval in WsChatSession::hb
HeartbeatTick(age, s, id) ==
  IF HeartbeatFailed(age)
  THEN [send |-> <<Envelope("Disconnect", id, <<>>, <<>>, s)>>, wrote |-> <<>>,
        stop |-> TRUE]
  ELSE [send |-> <<>>, wrote |-> <<Out("ping", <<>>)>>, stop |-> FALSE]

\* ------------------------------------------------------------------ actions
\* WsChatSession::started, were it to send Connect without .wait(ctx)
StartWithoutWait(s) ==
  /\ ws_state[s] = "none"
  /\ \A t \in Sess : t < s => ws_state[t] # "none"
  /\ ws_state' = [ws_state EXCEPT ![s] = "active"]
  /\ mailbox' = Enqueue(mailbox, <<Envelope("Connect", 0, <<>>, <<>>, s)>>)
  /\ reply' = IF alive THEN reply ELSE [reply EXCEPT ![s] = ErrReply]
  /\ last' = Step("started", s, NoFrame, NoMsg, <<>>, <<>>)
  /\ UNCHANGED <<coordinator, alive, ws_id, hb_age, tick_due, ws_room, ws_name,
                 frames, disconnects, history>>

\* chat_route and WsChatSession::started: the k-th connection is opened
Start(s) ==
  /\ ws_state[s] = "none"
  /\ \A t \in Sess : t < s => ws_state[t] # "none"
  /\ ws_state' = [ws_state EXCEPT ![s] = "connecting"]
  /\ mailbox' = Enqueue(mailbox, <<Envelope("Connect", 0, <<>>, <<>>, s)>>)
  /\ reply' = IF alive THEN reply ELSE [reply EXCEPT ![s] = ErrReply]
  /\ last' = Step("started", s, NoFrame, NoMsg, <<>>, <<>>)
  /\ UNCHANGED <<coordinator, alive, ws_id, hb_age, tick_due, ws_room, ws_name,
                 frames, disconnects, history>>

\* the ChatServer takes a Connect from its mailbox
ServeConnect ==
  /\ alive /\ mailbox # <<>> /\ Head(mailbox).type = "Connect"
  /\ \E id \in Ids :
       LET m == Head(mailbox)
           r == HandleConnect(sessions, rooms, visitor_count, m.addr, id)
       IN /\ sessions' = r.sessions
          /\ rooms' = r.rooms
          /\ visitor_count' = r.visitor_count
          /\ reply' = [reply EXCEPT
                         ![m.addr] = [k |-> "id", id |-> r.result, rooms |-> <<>>]]
          /\ issued' = Append(issued, r.result)
          /\ last' = Step("Connect", 0, NoFrame, m, r.sent, <<>>)
  /\ mailbox' = Tail(mailbox)
  /\ UNCHANGED <<alive, ws_state, ws_id, hb_age, tick_due, ws_room, ws_name,
                 frames, disconnects, gone, joined>>

\* the ChatServer takes a Disconnect from its mailbox
ServeDisconnect ==
  /\ alive /\ mailbox # <<>> /\ Head(mailbox).type = "Disconnect"
  /\ LET m == Head(mailbox)
         r == HandleDisconnect(sessions, rooms, m.id)
     IN /\ sessions' = r.sessions
        /\ rooms' = r.rooms
        /\ gone' = gone \cup {sessions[i] : i \in DOMAIN sessions \ DOMAIN r.sessions}
        /\ last' = Step("Disconnect", 0, NoFrame, m, r.sent, <<>>)
  /\ mailbox' = Tail(mailbox)
  /\ UNCHANGED <<visitor_count, alive, ws_state, ws_id, hb_age, tick_due, ws_room,
                 ws_name, frames, reply, disconnects, joined, issued>>

\* the ChatServer takes a ClientMessage from its mailbox
ServeClientMessage ==
  /\ alive /\ mailbox # <<>> /\ Head(mailbox).type = "ClientMessage"
  /\ LET m == Head(mailbox)
         r == HandleClientMessage(sessions, rooms, m.id, m.msg, m.room)
     IN /\ sessions' = r.sessions
        /\ rooms' = r.rooms
        /\ last' = Step("ClientMessage", 0, NoFrame, m, r.sent, <<>>)
  /\ mailbox' = Tail(mailbox)
  /\ UNCHANGED <<visitor_count, alive, ws_state, ws_id, hb_age, tick_due, ws_room,
                 ws_name, frames, reply, disconnects, history>>

\* the ChatServer takes a ListRooms from its mailbox and answers it
ServeListRooms ==
  /\ alive /\ mailbox # <<>> /\ Head(mailbox).type = "ListRooms"
  /\ \E v \in ListRoomsResults(rooms) :
       LET m == Head(mailbox) IN
       /\ reply' = [reply EXCEPT ![m.addr] = [k |-> "rooms", id |-> 0, rooms |-> v]]
       /\ last' = Step("ListRooms", 0, NoFrame, m, <<>>, <<>>)
  /\ mailbox' = Tail(mailbox)
  /\ UNCHANGED <<coordinator, alive, ws_state, ws_id, hb_age, tick_due, ws_room,
                 ws_name, frames, disconnects, history>>

\* the ChatServer takes a Join from its mailbox
ServeJoin ==
  /\ alive /\ mailbox # <<>> /\ Head(mailbox).type = "Join"
  /\ LET m == Head(mailbox)
         r == HandleJoin(sessions, rooms, m.id, m.room)
     IN /\ sessions' = r.sessions
        /\ rooms' = r.rooms
        /\ joined' = joined \cup {m.room}
        /\ last' = Step("Join", 0, NoFrame, m, r.sent, <<>>)
  /\ mailbox' = Tail(mailbox)
  /\ UNCHANGED <<visitor_count, alive, ws_state, ws_id, hb_age, tick_due, ws_room,
                 ws_name, frames, reply, disconnects, gone, issued>>

\* the ChatServer actor stops (the System shuts down): its mailbox closes and
\* every request waiting in it resolves to Err(MailboxError::Closed)
ServerStop ==
  /\ alive
  /\ alive' = FALSE
  /\ mailbox' = <<>>
  /\ reply' = [s \in Sess |->
                 IF \E i \in 1..Len(mailbox) :
                      /\ mailbox[i].type \in {"Connect", "ListRooms"}
                      /\ mailbox[i].addr = s
                 THEN ErrReply ELSE reply[s]]
  /\ last' = Step("ServerStop", 0, NoFrame, NoMsg, <<>>, <<>>)
  /\ UNCHANGED <<coordinator, ws_state, ws_id, hb_age, tick_due, ws_room, ws_name,
                 frames, disconnects, history>>

\* what a session's step leaves: it runs Actor::stopping when stop is set, and
\* the fields of a stopped actor are dropped
Settle(s, ev, f, state, send, wrote, stop) ==
  /\ mailbox' = Enqueue(mailbox, send \o (IF stop THEN Stopping(s, ws_id[s]) ELSE <<>>))
  /\ disconnects' =
       [disconnects EXCEPT
          ![s] = @ + Cardinality({i \in 1..Len(send) : send[i].type = "Disconnect"})
                   + (IF stop THEN 1 ELSE 0)]
  /\ ws_state' = [ws_state EXCEPT ![s] = IF stop THEN "stopped" ELSE state]
  /\ last' = Step(ev, s, f, NoMsg, <<>>, wrote)

\* the future of started resolves: act.id = res, or ctx.stop()
ConnectReply(s) ==
  /\ ws_state[s] = "connecting"
  /\ reply[s].k # "none"
  /\ ws_id' = [ws_id EXCEPT ![s] = IF reply[s].k = "id" THEN reply[s].id ELSE @]
  /\ reply' = [reply EXCEPT ![s] = NoReply]
  /\ Settle(s, "ConnectReply", NoFrame, "active", <<>>, <<>>, reply[s].k # "id")
  /\ tick_due' = [tick_due EXCEPT ![s] = IF reply[s].k = "id" THEN @ ELSE FALSE]
  /\ hb_age' = [hb_age EXCEPT ![s] = IF reply[s].k = "id" THEN @ ELSE 0]
  /\ UNCHANGED <<coordinator, alive, ws_room, ws_name, frames, history>>

\* the future of /list resolves: ctx.text(room) for each room, or a log line
ListReply(s) ==
  /\ ws_state[s] = "listing"
  /\ reply[s].k # "none"
  /\ reply' = [reply EXCEPT ![s] = NoReply]
  /\ Settle(s, "ListReply", NoFrame, "active", <<>>,
            [i \in 1..Len(reply[s].rooms) |-> Out("text", reply[s].rooms[i])],
            FALSE)
  /\ UNCHANGED <<coordinator, alive, ws_id, hb_age, tick_due, ws_room, ws_name,
                 frames, history>>

\* StreamHandler::handle, were "/list" to send ListRooms without .wait(ctx)
ReceiveWithoutWait(s, f) ==
  /\ ws_state[s] = "active"
  /\ frames[s] < MaxFrames
  /\ LET e == StreamHandle(f, s, ws_id[s], ws_room[s], ws_name[s]) IN
     /\ Settle(s, "frame", f, "active", e.send, e.wrote, e.stop)
     /\ ws_room' = [ws_room EXCEPT ![s] = e.room]
     /\ ws_name' = [ws_name EXCEPT ![s] = IF e.stop THEN <<>> ELSE e.name]
     /\ hb_age' = [hb_age EXCEPT ![s] = IF e.beat \/ e.stop THEN 0 ELSE @]
     /\ tick_due' = [tick_due EXCEPT ![s] = IF e.stop THEN FALSE ELSE @]
     /\ frames' = [frames EXCEPT ![s] = IF e.stop THEN 0 ELSE @ + 1]
     /\ reply' = [reply EXCEPT ![s] = IF e.wait /\ ~alive THEN ErrReply ELSE @]
  /\ UNCHANGED <<coordinator, alive, ws_id, history>>

\* the peer's next frame reaches StreamHandler::handle
Receive(s, f) ==
  /\ ws_state[s] = "active"
  /\ frames[s] < MaxFrames
  /\ LET e == StreamHandle(f, s, ws_id[s], ws_room[s], ws_name[s]) IN
     /\ Settle(s, "frame", f, IF e.wait THEN "listing" ELSE "active", e.send,
               e.wrote, e.stop)
     /\ ws_room' = [ws_room EXCEPT ![s] = e.room]
     /\ ws_name' = [ws_name EXCEPT ![s] = IF e.stop THEN <<>> ELSE e.name]
     /\ hb_age' = [hb_age EXCEPT ![s] = IF e.beat \/ e.stop THEN 0 ELSE @]
     /\ tick_due' = [tick_due EXCEPT ![s] = IF e.stop THEN FALSE ELSE @]
     /\ frames' = [frames EXCEPT ![s] = IF e.stop THEN 0 ELSE @ + 1]
     /\ reply' = [reply EXCEPT ![s] = IF e.wait /\ ~alive THEN ErrReply ELSE @]
  /\ UNCHANGED <<coordinator, alive, ws_id, history>>

\* HEARTBEAT_INTERVAL more since act.hb; beyond the timeout the exact age
\* decides nothing
Later(age) ==
  IF age + HEARTBEAT_INTERVAL > CLIENT_TIMEOUT
  THEN CLIENT_TIMEOUT + HEARTBEAT_INTERVAL
  ELSE age + HEARTBEAT_INTERVAL

\* HEARTBEAT_INTERVAL passes on the timer of a session whose context waits
\* for a response: the timer fires, and its callback runs after the wait
Elapse(s) ==
  /\ ws_state[s] \in {"connecting", "listing"}
  /\ hb_age' = [hb_age EXCEPT ![s] = Later(@)]
  /\ tick_due' = [tick_due EXCEPT ![s] = TRUE]
  /\ last' = Step("Elapse", s, NoFrame, NoMsg, <<>>, <<>>)
  /\ UNCHANGED <<coordinator, mailbox, alive, ws_state, ws_id, ws_room, ws_name,
                 frames, reply, disconnects, history>>

\* the run_interval timer of an active session runs its callback: the one
\* that fired during a wait, or else the next, HEARTBEAT_INTERVAL later
Heartbeat(s) ==
  /\ ws_state[s] = "active"
  /\ LET age == IF tick_due[s] THEN hb_age[s] ELSE Later(hb_age[s])
         e == HeartbeatTick(age, s, ws_id[s])
     IN /\ Settle(s, "hb", NoFrame, "active", e.send, e.wrote, e.stop)
        /\ ws_name' = [ws_name EXCEPT ![s] = IF e.stop THEN <<>> ELSE @]
        /\ hb_age' = [hb_age EXCEPT ![s] = IF e.stop THEN 0 ELSE age]
        /\ frames' = [frames EXCEPT ![s] = IF e.stop THEN 0 ELSE @]
  /\ tick_due' = [tick_due EXCEPT ![s] = FALSE]
  /\ UNCHANGED <<coordinator, alive, ws_id, ws_room, reply, history>>

\* the ChatServer handles the message at the head of its mailbox
Serve ==
  \/ ServeConnect
  \/ ServeDisconnect
  \/ ServeClientMessage
  \/ ServeListRooms
  \/ ServeJoin

\* connections open and resolve their requests
Connections ==
  \/ \E s \in Sess : Start(s)
  \/ \E s \in Sess : ConnectReply(s)
  \/ \E s \in Sess : ListReply(s)

\* runs in which no heartbeat interval passes: the peers send any frame
Next ==
  \/ Serve
  \/ ServerStop
  \/ Connections
  \/ \E s \in Sess, f \in Frames : Receive(s, f)

Spec == Init /\ [][Next]_vars

\* runs in which time passes: the peers send the frames that keep a
\* connection alive, end it or move it to another room, so that neither a
\* ClientMessage nor a ListRooms reaches the mailbox
TimedNext ==
  \/ ServeConnect
  \/ ServeDisconnect
  \/ ServeJoin
  \/ ServerStop
  \/ \E s \in Sess : Start(s)
  \/ \E s \in Sess : ConnectReply(s)
  \/ \E s \in Sess, f \in LivenessFrames : Receive(s, f)
  \/ \E s \in Sess : Elapse(s)
  \/ \E s \in Sess : Heartbeat(s)

TimedSpec == Init /\ [][TimedNext]_vars

\* ServeConnect when rng.gen::<usize>() returns, at the k-th Connect, the
\* value k: an id that is not 0 and that no earlier Connect returned
ServeConnectFresh ==
  ServeConnect /\ issued' = Append(issued, Len(issued) + 1)

\* runs in which time passes while sessions wait for the ChatServer's
\* responses: the ids are fresh, and the peers list rooms, join and chat
WaitNext ==
  \/ ServeConnectFresh
  \/ ServeDisconnect
  \/ ServeClientMessage
  \/ ServeListRooms
  \/ ServeJoin
  \/ ServerStop
  \/ Connections
  \/ \E s \in Sess, f \in WaitFrames : Receive(s, f)
  \/ \E s \in Sess : Elapse(s)
  \/ \E s \in Sess : Heartbeat(s)

WaitSpec == Init /\ [][WaitNext]_vars

\* The values ChatServer.sessions and ChatServer.rooms can take: a handle is
\* registered under at most one id, "Main" is always a room, and a room may
\* hold ids that are not registered
Registries ==
  {f \in UNION {[D -> Sess] : D \in SUBSET Ids} :
     \A i, j \in DOMAIN f : f[i] = f[j] => i = j}
RoomMaps == UNION {[D -> SUBSET Ids] : D \in {{Main}, {Main, RoomA}}}

\* a ChatServer in any of these states, with one ClientMessage to handle
RouteInit ==
  /\ sessions \in Registries
  /\ rooms \in RoomMaps
  /\ visitor_count = Cardinality(Ids)
  /\ \E id \in Ids, room \in {Main, RoomA} :
       mailbox = <<Envelope("ClientMessage", id, room, <<"h", "i">>, 1)>>
  /\ alive = TRUE
  /\ ws_state = [s \in Sess |-> IF s \in Range(sessions) THEN "active" ELSE "stopped"]
  /\ ws_id = [s \in Sess |->
                IF s \in Range(sessions)
                THEN CHOOSE i \in DOMAIN sessions : sessions[i] = s
                ELSE 0]
  /\ hb_age = [s \in Sess |-> 0]
  /\ tick_due = [s \in Sess |-> FALSE]
  /\ ws_room = [s \in Sess |-> Main]
  /\ ws_name = [s \in Sess |-> <<>>]
  /\ frames = [s \in Sess |-> 0]
  /\ reply = [s \in Sess |-> NoReply]
  /\ disconnects = [s \in Sess |-> 0]
  /\ last = Step("init", 0, NoFrame, NoMsg, <<>>, <<>>)
  /\ gone = {}
  /\ joined = DOMAIN rooms \ {Main}
  /\ issued = <<>>

\* the handler of ClientMessage applied to every such state and message
RouteNext == ServeClientMessage

RouteSpec == RouteInit /\ [][RouteNext]_vars

\* ------------------------------------------------------------------- claims
\* auxiliary notions the properties below share
Recipients(sent, text) == {sent[i].to : i \in {j \in DOMAIN sent : sent[j].text = text}}
Times(sent, to, text) ==
  Cardinality({i \in DOMAIN sent : sent[i].to = to /\ sent[i].text = text})
Queued(s, type) ==
  Cardinality({i \in DOMAIN mailbox : mailbox[i].addr = s /\ mailbox[i].type = type})
TimedOut(s) == ws_state[s] = "stopped" /\ disconnects[s] = 2

\* C1: every session sends Disconnect to the ChatServer exactly once over its
\* lifetime, whatever ended it: never twice, and once when it has stopped.
C1_DisconnectExactlyOnce ==
  \A s \in Sess :
    /\ disconnects[s] <= 1
    /\ ws_state[s] = "stopped" => disconnects[s] = 1

\* C2: every id Connect returns differs from every id an earlier Connect
\* returned.
C2_ConnectIdsUnique ==
  \A i, j \in DOMAIN issued : issued[i] = issued[j] => i = j

\* C3: right after the ChatServer handles Join(id, R), id is a member of R and
\* of no other room, whatever rooms held it before.
C3_JoinLeavesOneRoom ==
  last.ev = "Join" =>
    /\ last.msg.room \in DOMAIN rooms
    /\ \A n \in DOMAIN rooms : last.msg.id \in rooms[n] <=> n = last.msg.room

\* C3 witness: the only id ever issued joined room A and then room Main; the
\* second Join has been handled and A no longer holds it.
C3_Witness ==
  /\ last.ev = "Join" /\ last.msg.room = Main
  /\ Len(issued) = 1 /\ last.msg.id = issued[1]
  /\ RoomA \in joined
  /\ last.msg.id \notin rooms[RoomA]
  /\ last.msg.id \in rooms[Main]

\* C4: handling Disconnect(id) of a registered id leaves id out of the
\* registry and out of every room, and no step of the ChatServer, this one
\* included, attempts a delivery to a handle a Disconnect has removed.
C4_DisconnectUnregisters ==
  [][ /\ (last'.ev = "Disconnect" /\ last'.msg.id \in DOMAIN sessions) =>
           /\ last'.msg.id \notin DOMAIN sessions'
           /\ \A n \in DOMAIN rooms' : last'.msg.id \notin rooms'[n]
      /\ \A i \in DOMAIN last'.sent : last'.sent[i].to \notin gone' ]_vars

\* C4 witness: after a Disconnect removed a handle, another session's chat
\* line for a room that still has a registered member was handled, and went
\* to nobody.
C4_Witness ==
  /\ gone # {}
  /\ last.ev = "ClientMessage"
  /\ last.msg.id \in DOMAIN sessions
  /\ last.msg.room \in DOMAIN rooms /\ last.msg.id \in rooms[last.msg.room]
  /\ last.sent = <<>>

\* C5: handling ClientMessage(id, room, text) sends text, unchanged and once,
\* to the handle of every registered member of room other than id, and sends
\* nothing else: not to the handle of id, not to a session outside room.
C5_ClientMessageFanOut ==
  last.ev = "ClientMessage" =>
    LET m == last.msg
        others == IF m.room \in DOMAIN rooms
                  THEN {sessions[i] : i \in (rooms[m.room] \ {m.id}) \cap DOMAIN sessions}
                  ELSE {}
    IN /\ \A i \in DOMAIN last.sent : last.sent[i].text = m.msg
       /\ \A h \in Sess : Times(last.sent, h, m.msg) = IF h \in others THEN 1 ELSE 0
       /\ m.id \in DOMAIN sessions => Times(last.sent, sessions[m.id], m.msg) = 0

\* C5 witness: a chat line was handled and delivered to another member of the
\* sender's room.
C5_Witness ==
  /\ last.ev = "ClientMessage"
  /\ last.msg.id \in DOMAIN sessions
  /\ last.sent = <<Delivery(CHOOSE h \in Sess : h # sessions[last.msg.id], last.msg.msg)>>

\* C6: the room names always include "Main" and every room a handled Join
\* named, also when such a room is empty, and so does every ListRooms result.
C6_RoomsNeverDeleted ==
  /\ {Main} \cup joined \subseteq DOMAIN rooms
  /\ last.ev = "ListRooms" =>
       /\ reply[last.msg.addr].k = "rooms"
       /\ {Main} \cup joined \subseteq Range(reply[last.msg.addr].rooms)

\* C6 witness: ListRooms was answered while room A, joined earlier, and Main
\* were both empty.
C6_Witness ==
  /\ last.ev = "ListRooms"
  /\ RoomA \in joined
  /\ rooms[RoomA] = {} /\ rooms[Main] = {}
  /\ RoomA \in Range(reply[last.msg.addr].rooms)

\* C7: handling Disconnect(id) for an id that is not registered (a second
\* Disconnect of the same id, or an id never registered) changes neither the
\* registry nor any room and sends no notice.
C7_SecondDisconnectNoOp ==
  [][ (last'.ev = "Disconnect" /\ last'.msg.id \notin DOMAIN sessions) =>
        /\ sessions' = sessions
        /\ rooms' = rooms
        /\ last'.sent = <<>> ]_vars

\* C7 witness: both Disconnects of a session that timed out have been
\* handled, the second one last, while another session is registered in the
\* room the session was in.
C7_Witness ==
  /\ last.ev = "Disconnect"
  /\ TimedOut(last.msg.addr)
  /\ Queued(last.msg.addr, "Disconnect") = 0
  /\ last.msg.id \notin DOMAIN sessions
  /\ \E i \in DOMAIN sessions : i # 0 /\ i \in rooms[ws_room[last.msg.addr]]
  /\ last.sent = <<>>

\* C8: handling Connect registers the new handle under the returned id, puts
\* the id into "Main" and no other room, and the visitor counter notice
\* reaches every other member of "Main" but not the new session.
C8_CounterSkipsNewSession ==
  last.ev = "Connect" =>
    LET id == issued[Len(issued)]
        h == last.msg.addr
        notice == TotalVisitors(visitor_count - 1)
    IN /\ sessions[id] = h
       /\ \A n \in DOMAIN rooms : id \in rooms[n] <=> n = Main
       /\ \A i \in (rooms[Main] \ {id}) \cap DOMAIN sessions :
            sessions[i] \in Recipients(last.sent, notice)
       /\ h \notin Recipients(last.sent, notice)

\* C8 as amended: handling Connect registers the new handle under the
\* returned id, adds the id to "Main" and changes no other room, and the
\* visitor counter notice goes once to the handle of every registered member
\* of "Main" whose id is not 0, the new session included, and to no other.
C8_CounterReachesNewSession ==
  [][ last'.ev = "Connect" =>
        LET id == issued'[Len(issued')]
            h == last'.msg.addr
            notice == TotalVisitors(visitor_count)
            members == {sessions'[i] : i \in (rooms'[Main] \ {0}) \cap DOMAIN sessions'}
        IN /\ sessions' = MapInsert(sessions, id, h)
           /\ rooms' = MapInsert(rooms, Main, rooms[Main] \cup {id})
           /\ visitor_count' = visitor_count + 1
           /\ \A t \in Sess :
                Times(last'.sent, t, notice) = IF t \in members THEN 1 ELSE 0
           /\ id # 0 => Times(last'.sent, h, notice) = 1 ]_vars

\* C8 witness: a Connect was handled whose counter notice went both to the
\* new session and to the member that was in "Main" before.
C8_Witness ==
  /\ last.ev = "Connect"
  /\ Len(issued) = 2
  /\ Recipients(last.sent, TotalVisitors(1)) = {1, 2}
  /\ sessions[issued[2]] = 2

\* the text frames that are "/join" with no argument
JoinWithoutArgument == {CmdJoin, <<" ">> \o CmdJoin \o <<" ", " ">>}

\* C9: on the text frame "/join" with no argument, also when whitespace
\* surrounds it, an active session writes exactly the line
\* "!!! room name is required", sends nothing to the ChatServer, keeps its
\* room, stays active, and the ChatServer's registry and rooms stay as they are.
C9_JoinWithoutRoom ==
  [][ (last'.ev = "frame" /\ last'.frame.kind = "Text"
         /\ last'.frame.text \in JoinWithoutArgument) =>
        /\ last'.wrote = <<Out("text", RoomNameRequired)>>
        /\ mailbox' = mailbox
        /\ disconnects' = disconnects
        /\ ws_room'[last'.s] = ws_room[last'.s]
        /\ ws_state'[last'.s] = "active"
        /\ rooms' = rooms /\ sessions' = sessions ]_vars

\* C9 witness: a session that had joined room A received " /join  " and
\* answered with the error line, still in room A.
C9_Witness ==
  /\ last.ev = "frame"
  /\ last.frame = Frame("Text", <<" ">> \o CmdJoin \o <<" ", " ">>)
  /\ last.wrote = <<Out("text", RoomNameRequired)>>
  /\ ws_room[last.s] = RoomA
  /\ ws_state[last.s] = "active"

\* C10: a session whose peer stayed silent beyond the timeout is closed, and
\* when the ChatServer handles the first Disconnect it sent, its id is out of
\* the registry and of every room, and every other registered member of each
\* room that held the id is sent a departure notice.
C10_TimeoutCleansUp ==
  [][ (last'.ev = "Disconnect" /\ TimedOut(last'.msg.addr)
         /\ Queued(last'.msg.addr, "Disconnect") = 2) =>
        LET id == last'.msg.id IN
        /\ id \notin DOMAIN sessions'
        /\ \A n \in DOMAIN rooms' : id \notin rooms'[n]
        /\ \A n \in DOMAIN rooms :
             id \in rooms[n] =>
               \A i \in (rooms[n] \ {id}) \cap DOMAIN sessions' :
                 sessions'[i] \in Recipients(last'.sent, SomeoneDisconnected) ]_vars

\* the handles of the registered members of a room other than id, in the
\* registry ss and the rooms rs
OtherMembers(ss, rs, room, id) ==
  IF room \in DOMAIN rs
  THEN {ss[i] : i \in (rs[room] \ {id}) \cap DOMAIN ss}
  ELSE {}

\* C11: when the ChatServer handles Join(id, R), the registered members that
\* remain in each room that held id are sent the departure notice, R is a
\* room afterwards, the arrival notice goes once to every registered member
\* of R other than id and to nobody else, and id itself is sent neither the
\* arrival notice nor, when it re-joins its room, the departure notice.
C11_JoinNotices ==
  [][ last'.ev = "Join" =>
        LET id == last'.msg.id
            R == last'.msg.room
        IN /\ \A n \in RoomsHolding(rooms, id) :
                OtherMembers(sessions, rooms, n, id)
                  \subseteq Recipients(last'.sent, SomeoneDisconnected)
           /\ R \in DOMAIN rooms'
           /\ \A h \in Sess :
                Times(last'.sent, h, SomeoneConnected) =
                  IF h \in OtherMembers(sessions', rooms', R, id) THEN 1 ELSE 0
           /\ id \in DOMAIN sessions =>
                /\ sessions[id] \notin Recipients(last'.sent, SomeoneConnected)
                /\ sessions[id] \notin Recipients(last'.sent, SomeoneDisconnected) ]_vars

\* C12: when the ChatServer handles Disconnect(id) of a registered id, every
\* registered member that remains in a room id was removed from is sent the
\* departure notice, whatever its id, and every notice goes to a member of
\* such a room.
C12_DisconnectNotices ==
  [][ (last'.ev = "Disconnect" /\ last'.msg.id \in DOMAIN sessions) =>
        LET id == last'.msg.id
            held == RoomsHolding(rooms, id)
            remaining == UNION {OtherMembers(sessions', rooms, n, id) : n \in held}
        IN /\ remaining \subseteq Recipients(last'.sent, SomeoneDisconnected)
           /\ \A k \in DOMAIN last'.sent :
                /\ last'.sent[k].text = SomeoneDisconnected
                /\ last'.sent[k].to \in remaining ]_vars

\* C13: in every state every id is a member of at most one room.
C13_AtMostOneRoom ==
  \A i \in Ids : Cardinality(RoomsHolding(rooms, i)) <= 1

\* the messages of a type that session s sent and the ChatServer holds
FromSession(s, types) ==
  {i \in DOMAIN mailbox : mailbox[i].addr = s /\ mailbox[i].type \in types}

\* the requests of session s whose response has not reached it: those in the
\* mailbox, and the response not yet taken
Outstanding(s) ==
  Cardinality(FromSession(s, {"Connect", "ListRooms"}))
    + (IF reply[s].k # "none" THEN 1 ELSE 0)

\* C14: while a session waits for the response to Connect, no step of it
\* handles a frame or runs the heartbeat callback, it writes nothing and
\* sends nothing; and every Join and ClientMessage in the mailbox carries the
\* id that Connect returned to the session that sent it.
C14_ConnectingBlocks ==
  [][ /\ \A s \in Sess :
           (ws_state[s] = "connecting" /\ last'.s = s) =>
             /\ last'.ev \in {"ConnectReply", "Elapse"}
             /\ last'.wrote = <<>>
             /\ frames'[s] = frames[s]
             /\ \A i \in DOMAIN mailbox' :
                  mailbox'[i].addr = s => mailbox'[i].type = "Connect"
      /\ \A i \in DOMAIN mailbox' :
           mailbox'[i].type \in {"Join", "ClientMessage"} =>
             /\ mailbox'[i].addr <= Len(issued')
             /\ mailbox'[i].id = issued'[mailbox'[i].addr] ]_vars

\* C14 witness: the second session, whose timer fired while it waited for
\* its id, has sent a Join and a chat line, both with the id 2 that Connect
\* returned to it and not the 0 it started with.
C14_Witness ==
  /\ ws_state[2] = "active" /\ tick_due[2]
  /\ Len(issued) = 2 /\ issued[2] = 2 /\ ws_id[2] = 2
  /\ FromSession(2, {"Join"}) # {} /\ FromSession(2, {"ClientMessage"}) # {}
  /\ \A i \in FromSession(2, {"Join", "ClientMessage"}) : mailbox[i].id = 2

\* C15: from the "/list" frame until the response to ListRooms, or its
\* failure, reaches the session, no step of the session handles a frame or
\* runs the heartbeat callback and the session sends nothing more; and a
\* session never has more than one request outstanding: it has one exactly
\* while it waits.
C15_ListBlocks ==
  [][ /\ \A s \in Sess :
           (ws_state[s] = "listing" /\ last'.s = s) =>
             /\ last'.ev \in {"ListReply", "Elapse"}
             /\ frames'[s] = frames[s]
             /\ \A t \in {"Connect", "Disconnect", "ClientMessage", "ListRooms", "Join"} :
                  Cardinality(FromSession(s, {t}))' <= Cardinality(FromSession(s, {t}))
      /\ \A s \in Sess :
           /\ Outstanding(s)' <= 1
           /\ Outstanding(s)' = 1 <=> ws_state'[s] \in {"connecting", "listing"} ]_vars

\* C15 witness: a session took the response to its ListRooms and wrote the
\* room names, after the timer had fired during the wait and while the
\* other session's chat line was in the mailbox.
C15_Witness ==
  /\ last.ev = "ListReply"
  /\ tick_due[last.s]
  /\ Len(last.wrote) = 2
  /\ \E t \in Sess : t # last.s /\ FromSession(t, {"ClientMessage"}) # {}

\* Instant::now() - act.hb at the next run of the heartbeat callback of s
GapAtTick(s) == IF tick_due[s] THEN hb_age[s] ELSE Later(hb_age[s])

Registered(s) == ws_id[s] \in DOMAIN sessions /\ sessions[ws_id[s]] = s

\* C17: in every state in which the ChatServer runs and a registered,
\* active session has no Join in the mailbox, the rooms hold the session's
\* id in exactly the room that the session's room field names.
C17_RoomFieldAgrees ==
  \A s \in Sess :
    (alive /\ ws_state[s] = "active" /\ Registered(s)
       /\ FromSession(s, {"Join"}) = {}) =>
      RoomsHolding(rooms, ws_id[s]) = {ws_room[s]}

\* C19: in every state every id that is a member of a room is a key of the
\* registry.
C19_MembersRegistered ==
  \A n \in DOMAIN rooms : rooms[n] \subseteq DOMAIN sessions

\* C20: whenever the ChatServer handles a ClientMessage, the room it names
\* exists and holds the sender's id.
C20_SenderInRoom ==
  last.ev = "ClientMessage" =>
    /\ last.msg.room \in DOMAIN rooms
    /\ last.msg.id \in rooms[last.msg.room]

\* C18: handling ClientMessage(id, room, text) leaves the registry and every
\* room as they are; when room is not a room, none is created and nothing is
\* sent; otherwise text goes once to every member of room other than id that
\* has a registered handle, and a member without a handle costs no delivery
\* and stops none.
C18_ClientMessageRoutes ==
  [][ last'.ev = "ClientMessage" =>
        LET m == last'.msg
            sent == last'.sent
        IN /\ sessions' = sessions
           /\ rooms' = rooms
           /\ m.room \notin DOMAIN rooms => sent = <<>>
           /\ m.room \in DOMAIN rooms =>
                LET live == (rooms[m.room] \ {m.id}) \cap DOMAIN sessions IN
                /\ \A i \in live : Times(sent, sessions[i], m.msg) = 1
                /\ Len(sent) = Cardinality(live) ]_vars

\* C18 witness: a ClientMessage was handled for a room holding, besides the
\* sender, a member without a handle and a member with one, and the latter
\* was sent the text.
C18_Witness ==
  /\ last.ev = "ClientMessage"
  /\ last.msg.room \in DOMAIN rooms
  /\ \E i, j \in rooms[last.msg.room] \ {last.msg.id} :
       /\ i \notin DOMAIN sessions
       /\ j \in DOMAIN sessions
       /\ last.sent = <<Delivery(sessions[j], last.msg.msg)>>

====
